---- MODULE Spec2Model ----
(***************************************************************************)
(* Connector registry and tool dispatch of the CoreAssist backend          *)
(* (backend/registry.py, backend/main.py, backend/auth/store.py).          *)
(*                                                                         *)
(* Python strings are modelled as sequences of one-character strings, so   *)
(* that `'.' in s`, s.split('.', 1), s.split('_') and string concatenation *)
(* are computed character by character.  Names are abbreviated to keep     *)
(* the states small: "s" stands for the slack directory, "g_c" for         *)
(* google_calendar, "_p" for an underscore directory such as __pycache__.  *)
(***************************************************************************)
EXTENDS Integers, Sequences, FiniteSets, TLC

VARIABLES
    pc,                     \* "boot" before ConnectorRegistry() ran, then "serving"
    connectors,             \* ConnectorRegistry.connectors: an insertion-ordered dict
    users,                  \* AuthStore.users (the user ids present)
    connector_credentials,  \* AuthStore.connector_credentials
    response,               \* what the last operation returned to its caller
    sessions,               \* AuthStore.sessions: session id -> session data
    now,                    \* the clock read by datetime.now() / utcnow()
    inflight                \* execute calls that were entered and not yet left

vars ==
    <<pc, connectors, users, connector_credentials, response, sessions, now,
      inflight>>

----------------------------------------------------------------------------
(* Strings *)

DOT == "."
UNDERSCORE == "_"

slack == <<"s">>
google_calendar == <<"g", "_", "c">>
google_tasks == <<"g", "_", "t">>
pycache == <<"_", "p">>
unknown == <<"u">>

send_message == <<"m">>
list_events == <<"e">>
list_task_lists == <<"l">>
no_such_tool == <<"z">>
dotted_tool == <<"s", ".", "m">>

ConnectorSuffix == <<"Connector">>

Contains(str, ch) == \E i \in 1..Len(str) : str[i] = ch

\* str.find(ch) + 1 for a str that contains ch
FirstIndex(str, ch) ==
    CHOOSE i \in 1..Len(str) : str[i] = ch /\ \A j \in 1..(i - 1) : str[j] # ch

\* variant: str.rsplit(ch, 1)
SplitOnce_last(str, ch) ==
    LET i == CHOOSE k \in 1..Len(str) :
                 str[k] = ch /\ \A j \in (k + 1)..Len(str) : str[j] # ch
    IN  <<SubSeq(str, 1, i - 1), SubSeq(str, i + 1, Len(str))>>

\* str.split(ch, 1) for a str that contains ch
SplitOnce(str, ch) ==
    LET i == FirstIndex(str, ch)
    IN  <<SubSeq(str, 1, i - 1), SubSeq(str, i + 1, Len(str))>>

\* str.split(ch)
RECURSIVE Split(_, _)
Split(str, ch) ==
    IF Contains(str, ch)
    THEN <<SplitOnce(str, ch)[1]>> \o Split(SplitOnce(str, ch)[2], ch)
    ELSE <<str>>

Upper(c) ==
    CASE c = "s" -> "S" [] c = "g" -> "G" [] c = "c" -> "C"
      [] c = "p" -> "P" [] c = "u" -> "U" [] c = "t" -> "T" [] OTHER -> c

Lower(c) ==
    CASE c = "S" -> "s" [] c = "G" -> "g" [] c = "C" -> "c"
      [] c = "P" -> "p" [] c = "U" -> "u" [] c = "T" -> "t" [] OTHER -> c

\* word.capitalize()
Capitalize(word) ==
    [i \in 1..Len(word) |-> IF i = 1 THEN Upper(word[i]) ELSE Lower(word[i])]

RECURSIVE Join(_)
Join(words) ==
    IF words = <<>> THEN <<>> ELSE Head(words) \o Join(Tail(words))

\* "".join(word.capitalize() for word in connector_name.split('_')) + "Connector"
connector_class_name(connector_name) ==
    LET words == Split(connector_name, UNDERSCORE)
    IN  Join([i \in 1..Len(words) |-> Capitalize(words[i])]) \o ConnectorSuffix

SlackConnector == <<"S">> \o ConnectorSuffix
GoogleCalendarConnector == <<"G", "C">> \o ConnectorSuffix
GoogleTasksConnector == <<"G", "T">> \o ConnectorSuffix

----------------------------------------------------------------------------
(* Results of Python calls: a returned value or a raised exception *)

None == [none |-> TRUE]

\* {}: a dict without keys
EmptyDict == [k \in {} |-> TRUE]

Return(v) == [raised |-> "", message |-> <<>>, value |-> v]
Raise(type, msg) == [raised |-> type, message |-> msg, value |-> None]

----------------------------------------------------------------------------
(* What may lie in backend/connectors/<name>/ *)

Tool(n) == [name |-> n, description |-> "d"]

ToolNames == {send_message, list_events, dotted_tool}

\* manifest.json contents: a tools list of named tools, names unique within
\* the unit (the ToolDescriptor of the data model), or no tools list at all
Manifests ==
    {[info |-> "i"]} \cup
    {[info |-> "i", tools |-> ts] : ts \in
        {<<Tool(send_message)>>,
         <<Tool(list_events)>>,
         <<Tool(send_message), Tool(list_events)>>,
         <<Tool(list_events), Tool(dotted_tool)>>}}

ManifestFiles ==
    {[exists |-> FALSE, parses |-> FALSE, content |-> [info |-> "i"]],
     [exists |-> TRUE, parses |-> FALSE, content |-> [info |-> "i"]]} \cup
    {[exists |-> TRUE, parses |-> TRUE, content |-> m] : m \in Manifests}

\* connector.py: absent, or a module defining some connector classes; body
\* tells a shipped class from another implementation of Connector
ModuleFiles ==
    {[exists |-> FALSE, classes |-> {}, body |-> "shipped"],
     [exists |-> TRUE, classes |-> {SlackConnector}, body |-> "shipped"],
     [exists |-> TRUE, classes |-> {GoogleCalendarConnector}, body |-> "shipped"]}

\* manifest.json contents that json.load accepts although a tool has no name
NamelessTool == [description |-> "d"]

LooseManifests ==
    {[info |-> "i", tools |-> ts] : ts \in
        {<<Tool(send_message)>>,
         <<NamelessTool>>,
         <<Tool(send_message), NamelessTool>>}}

LooseManifestFiles ==
    {[exists |-> FALSE, parses |-> FALSE, content |-> [info |-> "i"]],
     [exists |-> TRUE, parses |-> FALSE, content |-> [info |-> "i"]]} \cup
    {[exists |-> TRUE, parses |-> TRUE, content |-> m] : m \in LooseManifests}

LoosePackages ==
    [module : {m \in ModuleFiles : m.exists}, manifest : LooseManifestFiles]

\* connector.py of a shipped unit, or one written against the Connector
\* interface by somebody else
PluginModuleFiles ==
    {[exists |-> TRUE, classes |-> {SlackConnector}, body |-> "shipped"],
     [exists |-> TRUE, classes |-> {GoogleCalendarConnector}, body |-> "shipped"],
     [exists |-> TRUE, classes |-> {SlackConnector}, body |-> "plugin"]}

PluginPackages ==
    [module : PluginModuleFiles,
     manifest : {[exists |-> TRUE, parses |-> TRUE,
                  content |-> [info |-> "i", tools |-> ts]] :
                     ts \in {<<Tool(send_message)>>, <<Tool(list_events)>>}}]

\* a directory's content; without a connector.py the manifest is never read
Packages ==
    {pkg \in [module : ModuleFiles, manifest : ManifestFiles] :
        ~pkg.module.exists => ~pkg.manifest.exists}

\* an underscore directory that would load if the scan did not skip it
PConnector == <<"P">> \o ConnectorSuffix
HiddenPackage ==
    [module |-> [exists |-> TRUE, classes |-> {PConnector}, body |-> "shipped"],
     manifest |-> [exists |-> TRUE, parses |-> TRUE,
                   content |-> [info |-> "i", tools |-> <<Tool(send_message)>>]]]

----------------------------------------------------------------------------
(* Connector *)

HasName(tool) == "name" \in DOMAIN tool

\* variant: a manifest without a tools list is rejected
load_manifest_strict(file) ==
    IF ~file.exists THEN Raise("FileNotFoundError", <<"No manifest.json found">>)
    ELSE IF ~file.parses THEN Raise("JSONDecodeError", <<"Expecting value">>)
    ELSE IF "tools" \notin DOMAIN file.content
    THEN Raise("KeyError", <<"tools">>)
    ELSE Return(file.content)

\* Connector._load_manifest
load_manifest(file) ==
    IF ~file.exists THEN Raise("FileNotFoundError", <<"No manifest.json found">>)
    ELSE IF ~file.parses THEN Raise("JSONDecodeError", <<"Expecting value">>)
    ELSE Return(file.content)

\* Connector.get_tools: self.manifest.get("tools", [])
get_tools(c) ==
    IF "tools" \in DOMAIN c.manifest THEN c.manifest.tools ELSE <<>>

\* variant: the namespaced descriptor keeps the name only
get_namespaced_tools_names_only(c) ==
    LET tools == get_tools(c)
    IN  IF \E i \in 1..Len(tools) : ~HasName(tools[i])
        THEN Raise("KeyError", <<"name">>)
        ELSE Return([i \in 1..Len(tools) |->
                 [name |-> c.connector_name \o <<DOT>> \o tools[i].name]])

\* Connector.get_namespaced_tools
get_namespaced_tools(c) ==
    LET tools == get_tools(c)
    IN  IF \E i \in 1..Len(tools) : ~HasName(tools[i])
        THEN Raise("KeyError", <<"name">>)
        ELSE Return([i \in 1..Len(tools) |->
                 [tools[i] EXCEPT !.name = c.connector_name \o <<DOT>> \o @]])

\* dict.get(key, default)
Get(d, key, default) == IF key \in DOMAIN d THEN d[key] ELSE default

\* the check every shipped connector makes first:
\* `not auth_data or 'access_token' not in auth_data`
LacksToken(auth_data) ==
    auth_data = None \/ "access_token" \notin DOMAIN auth_data

AuthRequired ==
    [error |-> "OAuth token required", auth_required |-> TRUE,
     auth_url |-> "TODO: Implement OAuth2 flow",
     message |-> "Please authenticate first"]

UnknownTool(tool_name) == [error |-> <<"Unknown tool: ", tool_name>>]

\* SlackConnector.execute (send_message is the routed tool)
SlackExecute(tool_name, parameters, auth_data) ==
    IF LacksToken(auth_data) THEN Return(AuthRequired)
    ELSE IF tool_name = send_message
    THEN Return([ok |-> TRUE,
                 channel |-> Get(parameters, "channel", None),
                 text |-> Get(parameters, "text", None)])
    ELSE Return(UnknownTool(tool_name))

\* GoogleCalendarConnector.execute (list_events is the routed tool);
\* range(min(max_results, 3)) raises TypeError unless max_results is a number
GoogleCalendarExecute(tool_name, parameters, auth_data) ==
    IF LacksToken(auth_data) THEN Return(AuthRequired)
    ELSE IF tool_name = list_events
    THEN LET max_results == Get(parameters, "max_results", [int |-> 10])
         IN  IF "int" \notin DOMAIN max_results
             THEN Raise("TypeError", <<"'<' not supported">>)
             ELSE Return([events |-> IF max_results.int < 3 THEN max_results.int ELSE 3,
                          calendar_id |-> Get(parameters, "calendar_id", "primary")])
    ELSE Return(UnknownTool(tool_name))

\* variant: a unit that raises when it is given no token
GoogleTasksExecute_raising(tool_name, parameters, auth_data) ==
    IF LacksToken(auth_data) THEN Raise("PermissionError", <<"no token">>)
    ELSE IF tool_name = list_task_lists
    THEN Return([task_lists |-> <<"sample_list_1", "sample_list_2">>,
                 message |-> "TODO"])
    ELSE Return(UnknownTool(tool_name))

\* GoogleTasksConnector.execute (list_task_lists is the routed tool)
GoogleTasksExecute(tool_name, parameters, auth_data) ==
    IF LacksToken(auth_data) THEN Return(AuthRequired)
    ELSE IF tool_name = list_task_lists
    THEN Return([task_lists |-> <<"sample_list_1", "sample_list_2">>,
                 message |-> "TODO"])
    ELSE Return(UnknownTool(tool_name))

\* the execute of a Connector subclass that is not one of the shipped ones:
\* it converts a parameter with int(parameters["max_results"])
PluginExecute(tool_name, parameters, auth_data) ==
    IF "max_results" \notin DOMAIN parameters
    THEN Raise("KeyError", <<"max_results">>)
    ELSE IF "int" \notin DOMAIN parameters.max_results
    THEN Raise("ValueError", <<"invalid literal for int()">>)
    ELSE Return([count |-> parameters.max_results.int])

\* connector.execute(tool_name, parameters, auth_data), by the instance's class
execute(c, tool_name, parameters, auth_data) ==
    IF c.body # "shipped"
    THEN PluginExecute(tool_name, parameters, auth_data)
    ELSE IF c.class = GoogleCalendarConnector
    THEN GoogleCalendarExecute(tool_name, parameters, auth_data)
    ELSE IF c.class = GoogleTasksConnector
    THEN GoogleTasksExecute(tool_name, parameters, auth_data)
    ELSE SlackExecute(tool_name, parameters, auth_data)

\* connector.execute with the clock readings its result carries:
\* _send_message puts datetime.now() in "ts", _list_events in "created"
execute_at(c, tool_name, parameters, auth_data, t) ==
    LET r == execute(c, tool_name, parameters, auth_data)
    IN  IF r.raised # "" \/ c.body # "shipped" THEN r
        ELSE IF "ok" \in DOMAIN r.value THEN Return(r.value @@ [ts |-> t])
        ELSE IF "events" \in DOMAIN r.value THEN Return(r.value @@ [created |-> t])
        ELSE r

----------------------------------------------------------------------------
(* ConnectorRegistry: connectors is a sequence of instances, in the dict's *)
(* insertion order, with at most one instance per connector_name           *)

Names(cs) == {cs[i].connector_name : i \in 1..Len(cs)}

IndexOf(cs, name) == CHOOSE i \in 1..Len(cs) : cs[i].connector_name = name

\* self.connectors[name]
Lookup(cs, name) == cs[IndexOf(cs, name)]

\* del self.connectors[name]
DictDel(cs, name) ==
    LET i == IndexOf(cs, name)
    IN  SubSeq(cs, 1, i - 1) \o SubSeq(cs, i + 1, Len(cs))

\* variant: a new key is put in front of the others
DictSet_front(cs, name, inst) ==
    IF name \in Names(cs)
    THEN [cs EXCEPT ![IndexOf(cs, name)] = inst]
    ELSE <<inst>> \o cs

\* self.connectors[name] = inst: an existing key keeps its position
DictSet(cs, name, inst) ==
    IF name \in Names(cs)
    THEN [cs EXCEPT ![IndexOf(cs, name)] = inst]
    ELSE Append(cs, inst)

\* identity of a newly created object: distinct from every object in `live`
NewId(live) ==
    CHOOSE n \in 1..(Cardinality(live) + 1) :
        n \notin live /\ \A k \in 1..(n - 1) : k \in live

Ids(cs) == {cs[i].id : i \in 1..Len(cs)}

\* variant: the instance is registered before its manifest is loaded
load_connector_early(cs, connector_name, pkg, live) ==
    IF ~pkg.module.exists
    THEN [raised |-> "FileNotFoundError", message |-> <<"No connector.py found">>,
          connectors |-> cs]
    ELSE IF connector_class_name(connector_name) \notin pkg.module.classes
    THEN [raised |-> "AttributeError", message |-> <<"No class found">>,
          connectors |-> cs]
    ELSE LET manifest == load_manifest(pkg.manifest)
         IN  [raised |-> manifest.raised, message |-> manifest.message,
              connectors |-> DictSet(cs, connector_name,
                  [connector_name |-> connector_name,
                   class |-> connector_class_name(connector_name),
                   body |-> pkg.module.body,
                   manifest |-> IF manifest.raised = "" THEN manifest.value
                                ELSE [info |-> "i"],
                   id |-> NewId(live)])]

\* ConnectorRegistry._load_connector; `live` are the instances that exist
load_connector(cs, connector_name, pkg, live) ==
    IF ~pkg.module.exists
    THEN [raised |-> "FileNotFoundError", message |-> <<"No connector.py found">>,
          connectors |-> cs]
    ELSE IF connector_class_name(connector_name) \notin pkg.module.classes
    THEN [raised |-> "AttributeError", message |-> <<"No class found">>,
          connectors |-> cs]
    ELSE LET manifest == load_manifest(pkg.manifest)
         IN  IF manifest.raised # ""
             THEN [raised |-> manifest.raised, message |-> manifest.message,
                   connectors |-> cs]
             ELSE [raised |-> "", message |-> <<>>,
                   connectors |-> DictSet(cs, connector_name,
                       [connector_name |-> connector_name,
                        class |-> connector_class_name(connector_name),
                        body |-> pkg.module.body,
                        manifest |-> manifest.value,
                        id |-> NewId(live)])]

\* variant: the scan stops at the first candidate that fails to load
RECURSIVE load_connectors_abort(_, _, _)
load_connectors_abort(cs, listing, disk) ==
    IF listing = <<>> THEN cs
    ELSE LET name == Head(listing)
         IN  IF name[1] # UNDERSCORE
             THEN LET r == load_connector(cs, name, disk[name], Ids(cs))
                  IN  IF r.raised # "" THEN cs
                      ELSE load_connectors_abort(r.connectors, Tail(listing), disk)
             ELSE load_connectors_abort(cs, Tail(listing), disk)

\* ConnectorRegistry._load_connectors over the directory listing `listing`
\* (iterdir order), disk[name] being the content of each directory
RECURSIVE load_connectors(_, _, _)
load_connectors(cs, listing, disk) ==
    IF listing = <<>> THEN cs
    ELSE LET name == Head(listing)
         IN  IF name[1] # UNDERSCORE
             THEN load_connectors(
                      load_connector(cs, name, disk[name], Ids(cs)).connectors,
                      Tail(listing), disk)
             ELSE load_connectors(cs, Tail(listing), disk)

\* variant: each unit's bare catalog comes before its namespaced catalog
RECURSIVE get_all_tools_bare_first(_)
get_all_tools_bare_first(cs) ==
    IF cs = <<>> THEN Return(<<>>)
    ELSE LET namespaced == get_namespaced_tools(Head(cs))
             rest == get_all_tools_bare_first(Tail(cs))
         IN  IF namespaced.raised # "" THEN namespaced
             ELSE IF rest.raised # "" THEN rest
             ELSE Return(get_tools(Head(cs)) \o namespaced.value \o rest.value)

\* variant: only the namespaced catalogs are listed
RECURSIVE get_all_tools_namespaced_only(_)
get_all_tools_namespaced_only(cs) ==
    IF cs = <<>> THEN Return(<<>>)
    ELSE LET namespaced == get_namespaced_tools(Head(cs))
             rest == get_all_tools_namespaced_only(Tail(cs))
         IN  IF namespaced.raised # "" THEN namespaced
             ELSE IF rest.raised # "" THEN rest
             ELSE Return(namespaced.value \o rest.value)

\* ConnectorRegistry.get_all_tools
RECURSIVE get_all_tools(_)
get_all_tools(cs) ==
    IF cs = <<>> THEN Return(<<>>)
    ELSE LET namespaced == get_namespaced_tools(Head(cs))
             rest == get_all_tools(Tail(cs))
         IN  IF namespaced.raised # "" THEN namespaced
             ELSE IF rest.raised # "" THEN rest
             ELSE Return(namespaced.value \o get_tools(Head(cs)) \o rest.value)

\* the loop `for tool in connector.get_tools(): if tool['name'] == n: return`
\* "found", "KeyError" (a tool without a name comes first) or "absent"
ScanTools(tools, n) ==
    LET hits == {i \in 1..Len(tools) : ~HasName(tools[i]) \/ tools[i].name = n}
    IN  IF hits = {} THEN "absent"
        ELSE LET first == CHOOSE i \in hits : \A j \in hits : i <= j
             IN  IF HasName(tools[first]) THEN "found" ELSE "KeyError"

\* variant: the last connector with the tool wins
RECURSIVE ScanConnectors_last(_, _)
ScanConnectors_last(cs, n) ==
    IF cs = <<>> THEN Return(None)
    ELSE LET later == ScanConnectors_last(Tail(cs), n)
             hit == ScanTools(get_tools(Head(cs)), n)
         IN  IF later.value # None THEN later
             ELSE IF hit = "found" THEN Return(Head(cs))
             ELSE Return(None)

\* the bare-name branch: the first connector, in dict order, with the tool
RECURSIVE ScanConnectors(_, _)
ScanConnectors(cs, n) ==
    IF cs = <<>> THEN Return(None)
    ELSE LET hit == ScanTools(get_tools(Head(cs)), n)
         IN  IF hit = "found" THEN Return(Head(cs))
             ELSE IF hit = "KeyError" THEN Raise("KeyError", <<"name">>)
             ELSE ScanConnectors(Tail(cs), n)

\* variant: a namespaced name its unit cannot serve falls back to a scan of
\* all units for the remainder
get_connector_for_tool_redirect(cs, tool_name) ==
    IF Contains(tool_name, DOT)
    THEN LET connector_name == SplitOnce(tool_name, DOT)[1]
             actual_tool_name == SplitOnce(tool_name, DOT)[2]
         IN  IF connector_name \in Names(cs)
                /\ ScanTools(get_tools(Lookup(cs, connector_name)),
                             actual_tool_name) = "found"
             THEN Return(Lookup(cs, connector_name))
             ELSE ScanConnectors(cs, actual_tool_name)
    ELSE ScanConnectors(cs, tool_name)

\* ConnectorRegistry.get_connector_for_tool
get_connector_for_tool(cs, tool_name) ==
    IF Contains(tool_name, DOT)
    THEN LET connector_name == SplitOnce(tool_name, DOT)[1]
             actual_tool_name == SplitOnce(tool_name, DOT)[2]
         IN  IF connector_name \in Names(cs)
             THEN LET hit == ScanTools(get_tools(Lookup(cs, connector_name)),
                                       actual_tool_name)
                  IN  IF hit = "found" THEN Return(Lookup(cs, connector_name))
                      ELSE IF hit = "KeyError" THEN Raise("KeyError", <<"name">>)
                      ELSE Return(None)
             ELSE Return(None)
    ELSE ScanConnectors(cs, tool_name)

\* the invocation of a unit's execute, as the unit sees it
Invocation(c, tool_name, parameters, auth_data) ==
    [id |-> c.id, connector_name |-> c.connector_name, tool_name |-> tool_name,
     parameters |-> parameters, auth_data |-> auth_data]

\* str.rfind(ch) + 1 for a str that contains ch
LastIndex(str, ch) ==
    CHOOSE i \in 1..Len(str) : str[i] = ch /\ \A j \in (i + 1)..Len(str) : str[j] # ch

\* variant: the name is cut at the last '.', as tool_name.split('.')[-1] does
actual_tool_name_of_last(tool_name) ==
    IF Contains(tool_name, DOT)
    THEN SubSeq(tool_name, LastIndex(tool_name, DOT) + 1, Len(tool_name))
    ELSE tool_name

\* tool_name.split('.', 1)[-1] if '.' in tool_name else tool_name
actual_tool_name_of(tool_name) ==
    IF Contains(tool_name, DOT) THEN SplitOnce(tool_name, DOT)[2] ELSE tool_name

\* ConnectorRegistry.execute_tool; calls lists the execute invocations made
execute_tool(cs, tool_name, parameters, auth_data) ==
    LET found == get_connector_for_tool(cs, tool_name)
    IN  IF found.raised # ""
        THEN [outcome |-> found, calls |-> <<>>]
        ELSE IF found.value = None
        THEN [outcome |-> Raise("ValueError",
                                <<"No connector found for tool: ", tool_name>>),
              calls |-> <<>>]
        ELSE [outcome |-> execute(found.value, actual_tool_name_of(tool_name),
                                  parameters, auth_data),
              calls |-> <<Invocation(found.value, actual_tool_name_of(tool_name),
                                     parameters, auth_data)>>]

\* ConnectorRegistry.list_connectors
list_connectors(cs) == [i \in 1..Len(cs) |-> cs[i].connector_name]

\* variant: the old entry is kept until the new one has loaded
reload_connector_keep(cs, connector_name, pkg) ==
    load_connector(cs, connector_name, pkg, Ids(cs))

\* ConnectorRegistry.reload_connector
reload_connector(cs, connector_name, pkg) ==
    load_connector(
        IF connector_name \in Names(cs) THEN DictDel(cs, connector_name) ELSE cs,
        connector_name, pkg, Ids(cs))

----------------------------------------------------------------------------
(* AuthStore: connector_credentials maps <<user_id, connector_name>> to the *)
(* stored credentials                                                       *)

\* AuthStore.get_user
get_user(us, user_id) == IF user_id \in us THEN [user_id |-> user_id] ELSE None

\* AuthStore.get_connector_credentials
get_connector_credentials(creds, user_id, connector_name) ==
    IF <<user_id, connector_name>> \in DOMAIN creds
    THEN creds[<<user_id, connector_name>>]
    ELSE None

\* AuthStore.store_connector_credentials
store_connector_credentials(creds, user_id, connector_name, credentials) ==
    [k \in DOMAIN creds \cup {<<user_id, connector_name>>} |->
        IF k = <<user_id, connector_name>> THEN credentials ELSE creds[k]]

\* variant: the delete drops everything stored for the user
delete_connector_credentials_of_user(creds, user_id, connector_name) ==
    [k \in {q \in DOMAIN creds : q[1] # user_id} |-> creds[k]]

\* AuthStore.delete_connector_credentials
delete_connector_credentials(creds, user_id, connector_name) ==
    [k \in DOMAIN creds \ {<<user_id, connector_name>>} |-> creds[k]]

\* timedelta(hours=24): the clock counts hours
SessionHours == 24

\* AuthStore.create_session: the keys of session_data are merged in last and
\* replace the keys written before them
create_session(ss, session_id, user_id, session_data, t) ==
    LET base == [session_id |-> session_id, user_id |-> user_id,
                 created_at |-> t, expires_at |-> t + SessionHours]
        session == IF session_data = None THEN base ELSE session_data @@ base
    IN  [k \in DOMAIN ss \cup {session_id} |->
            IF k = session_id THEN session ELSE ss[k]]

\* AuthStore.get_session
get_session(ss, session_id, t) ==
    IF session_id \notin DOMAIN ss
    THEN [sessions |-> ss, value |-> None]
    ELSE IF ss[session_id].expires_at < t
    THEN [sessions |-> [k \in DOMAIN ss \ {session_id} |-> ss[k]],
          value |-> None]
    ELSE [sessions |-> ss, value |-> ss[session_id]]

\* AuthStore.invalidate_session
invalidate_session(ss, session_id) ==
    [sessions |-> [k \in DOMAIN ss \ {session_id} |-> ss[k]],
     value |-> session_id \in DOMAIN ss]

\* AuthStore.cleanup_expired_sessions
cleanup_expired_sessions(ss, t) ==
    LET expired_sessions == {k \in DOMAIN ss : ss[k].expires_at < t}
    IN  [sessions |-> [k \in DOMAIN ss \ expired_sessions |-> ss[k]],
         value |-> Cardinality(expired_sessions)]

----------------------------------------------------------------------------
(* Dispatch facade (main.py) *)

NoUser == ""

\* the X-Auth header: absent (or empty), the configured secret, another value
NoHeader == ""
SharedSecret == "secret"
XAuthValues == {NoHeader, SharedSecret, "wrong"}

\* AuthStore.verify_shared_secret
verify_shared_secret(provided_secret) == provided_secret = SharedSecret

\* variant: any header that is present is accepted
verify_auth_present(x_auth) ==
    IF x_auth = NoHeader
    THEN Raise("HTTPException", <<"Missing X-Auth header">>)
    ELSE Return(TRUE)

\* verify_auth, the dependency of the POST endpoints
verify_auth(x_auth) ==
    IF x_auth = NoHeader
    THEN Raise("HTTPException", <<"Missing X-Auth header">>)
    ELSE IF ~verify_shared_secret(x_auth)
    THEN Raise("HTTPException", <<"Invalid authentication">>)
    ELSE Return(TRUE)

\* the auth_data call_tool hands to the registry
call_tool_auth_data(us, creds, request) ==
    IF request.user_id # NoUser
       /\ get_user(us, request.user_id) # None
       /\ Contains(request.tool_name, DOT)
       /\ SplitOnce(request.tool_name, DOT)[1] # <<>>
    THEN get_connector_credentials(creds, request.user_id,
                                   SplitOnce(request.tool_name, DOT)[1])
    ELSE None

\* variant: only the lookup fault is caught, anything else leaves the handler
ToolCallResponse_value_error_only(outcome) ==
    IF outcome.raised = ""
    THEN [success |-> TRUE, result |-> outcome.value, error |-> None]
    ELSE IF outcome.raised \in {"ValueError", "JSONDecodeError"}
    THEN [success |-> FALSE, result |-> EmptyDict,
          error |-> <<"Tool not found: ">> \o outcome.message]
    ELSE [detail |-> <<"Internal Server Error">>]

\* ToolCallResponse built by call_tool from what execute_tool did
ToolCallResponse(outcome) ==
    IF outcome.raised = ""
    THEN [success |-> TRUE, result |-> outcome.value, error |-> None]
    ELSE IF outcome.raised \in {"ValueError", "JSONDecodeError"}
    THEN [success |-> FALSE, result |-> EmptyDict,
          error |-> <<"Tool not found: ">> \o outcome.message]
    ELSE [success |-> FALSE, result |-> EmptyDict,
          error |-> <<"Tool execution failed: ">> \o outcome.message]

\* call_tool
call_tool(cs, us, creds, request) ==
    LET done == execute_tool(cs, request.tool_name, request.parameters,
                             call_tool_auth_data(us, creds, request))
    IN  [calls |-> done.calls, body |-> ToolCallResponse(done.outcome)]

----------------------------------------------------------------------------
(* Operations *)

UserIds == {"u1"}

Credentials == {[access_token |-> "tok"]}

CredentialNames == {slack, google_calendar}

StoreUserIds == {"u1", "u2"}

StoreCredentials == {[access_token |-> "tok"], [access_token |-> "new"], EmptyDict}

CallNames ==
    {send_message, list_events, no_such_tool,
     slack \o <<DOT>> \o send_message,
     slack \o <<DOT>> \o dotted_tool,
     google_calendar \o <<DOT>> \o send_message,
     google_calendar \o <<DOT>> \o list_events,
     unknown \o <<DOT>> \o send_message}

Parameters ==
    {[channel |-> "#general", text |-> "hi"],
     [max_results |-> [str |-> "many"]]}

Requests ==
    [tool_name : CallNames, parameters : Parameters, user_id : UserIds \cup {NoUser}]

DirNames == {slack, google_calendar, pycache}

Listings ==
    {l \in [1..Cardinality(DirNames) -> DirNames] :
        \A i, j \in 1..Cardinality(DirNames) : i # j => l[i] # l[j]}

Disks ==
    {disk \in [DirNames -> Packages \cup {HiddenPackage}] :
        \A d \in DirNames : (disk[d] = HiddenPackage) <=> (d = pycache)}

LooseDisks ==
    {disk \in [DirNames -> LoosePackages \cup {HiddenPackage}] :
        \A d \in DirNames : (disk[d] = HiddenPackage) <=> (d = pycache)}

PluginDisks ==
    {disk \in [DirNames -> PluginPackages \cup {HiddenPackage}] :
        \A d \in DirNames : (disk[d] = HiddenPackage) <=> (d = pycache)}

ReloadNames == {slack, google_calendar, unknown}

\* the connectors directory as shipped: slack, google_tasks, google_calendar,
\* each with its connector.py and a manifest listing a tool the unit routes
ShippedDirNames == {slack, google_tasks, google_calendar}

ShippedListings ==
    {l \in [1..Cardinality(ShippedDirNames) -> ShippedDirNames] :
        \A i, j \in 1..Cardinality(ShippedDirNames) : i # j => l[i] # l[j]}

ShippedPackage(class, tool_name) ==
    [module |-> [exists |-> TRUE, classes |-> {class}, body |-> "shipped"],
     manifest |-> [exists |-> TRUE, parses |-> TRUE,
                   content |-> [info |-> "i", tools |-> <<Tool(tool_name)>>]]]

ShippedDisk ==
    [d \in ShippedDirNames |->
        IF d = slack THEN ShippedPackage(SlackConnector, send_message)
        ELSE IF d = google_tasks
        THEN ShippedPackage(GoogleTasksConnector, list_task_lists)
        ELSE ShippedPackage(GoogleCalendarConnector, list_events)]

AbsentPackage ==
    [module |-> [exists |-> FALSE, classes |-> {}, body |-> "shipped"],
     manifest |-> [exists |-> FALSE, parses |-> FALSE, content |-> [info |-> "i"]]]

ReloadPackages ==
    {ShippedDisk[slack], ShippedDisk[google_calendar], AbsentPackage}

ShippedCallNames ==
    {send_message, list_task_lists, list_events, no_such_tool,
     slack \o <<DOT>> \o send_message,
     google_tasks \o <<DOT>> \o list_task_lists,
     google_tasks \o <<DOT>> \o send_message,
     google_calendar \o <<DOT>> \o list_events}

ShippedRequests ==
    [tool_name : ShippedCallNames, parameters : Parameters,
     user_id : UserIds \cup {NoUser}]

\* the execute calls that may be in progress at once
Slots == {"a", "b"}

Idle == [state |-> "idle"]

MaxNow == 2

ConcurrentTools == {send_message, list_events}

\* uuid4 values
SessionIds == {"s1", "s2"}

\* session_data: absent, additional data, or data that names a key
\* create_session writes itself
SessionData == {None, [device |-> "d"], [expires_at |-> 0]}

ClockStep == 12

MaxClock == 48

Init ==
    /\ pc = "boot"
    /\ connectors = <<>>
    /\ users = {}
    /\ connector_credentials = <<>>
    /\ response = [op |-> "none"]
    /\ sessions = <<>>
    /\ now = 0
    /\ inflight = [slot \in Slots |-> Idle]

\* registry = ConnectorRegistry(), over the directory contents in disks
BootFrom(listings, disks) ==
    /\ pc = "boot"
    /\ \E listing \in listings, disk \in disks :
        /\ connectors' = load_connectors(<<>>, listing, disk)
        /\ response' = [op |-> "load_connectors", listing |-> listing, disk |-> disk]
    /\ pc' = "serving"
    /\ UNCHANGED <<users, connector_credentials, sessions, now, inflight>>

Boot == BootFrom(Listings, Disks)

\* startup over directories whose manifests and modules nobody validated
BootLoose == BootFrom(Listings, LooseDisks)

\* startup where a directory may hold a unit that is not a shipped one
BootPlugin == BootFrom(Listings, PluginDisks)

\* startup with the three shipped units on disk
BootShipped == BootFrom(ShippedListings, {ShippedDisk})

\* variant: the namespaced name is written into the unit's own descriptor
\* instead of a copy of it
GetToolsManifest_in_place ==
    /\ pc = "serving"
    /\ response' = [op |-> "get_tools_manifest",
                    all_tools |-> get_all_tools(connectors),
                    connectors |-> list_connectors(connectors)]
    /\ connectors' =
          [i \in 1..Len(connectors) |->
              IF get_tools(connectors[i]) = <<>> THEN connectors[i]
              ELSE [connectors[i] EXCEPT !.manifest.tools =
                       get_namespaced_tools(connectors[i]).value]]
    /\ UNCHANGED <<pc, users, connector_credentials, sessions, now, inflight>>

\* GET /tools/manifest
GetToolsManifest ==
    /\ pc = "serving"
    /\ response' = [op |-> "get_tools_manifest",
                    all_tools |-> get_all_tools(connectors),
                    connectors |-> list_connectors(connectors)]
    /\ UNCHANGED <<pc, connectors, users, connector_credentials, sessions, now, inflight>>

\* POST /connectors/{connector_name}/reload, the directory holding one of pkgs
ReloadFrom(pkgs) ==
    /\ pc = "serving"
    /\ \E x_auth \in XAuthValues, connector_name \in ReloadNames, pkg \in pkgs :
        LET r == reload_connector(connectors, connector_name, pkg)
        IN  IF verify_auth(x_auth).raised # ""
            THEN /\ connectors' = connectors
                 /\ response' = [op |-> "reload_connector",
                                 x_auth |-> x_auth,
                                 connector_name |-> connector_name,
                                 was_registered |-> connector_name \in Names(connectors),
                                 status |-> 401,
                                 raised |-> verify_auth(x_auth).raised]
            ELSE /\ connectors' = r.connectors
                 /\ response' = [op |-> "reload_connector",
                                 x_auth |-> x_auth,
                                 connector_name |-> connector_name,
                                 was_registered |-> connector_name \in Names(connectors),
                                 status |-> IF r.raised = "" THEN 200 ELSE 500,
                                 raised |-> r.raised]
    /\ UNCHANGED <<pc, users, connector_credentials, sessions, now, inflight>>

ReloadConnector == ReloadFrom(Packages)

ReloadLoose == ReloadFrom(LoosePackages)

\* a reload that finds the shipped slack or google_calendar unit, or nothing
ReloadShipped == ReloadFrom(ReloadPackages)

\* registry.get_connector_for_tool(tool_name)
GetConnectorForTool ==
    /\ pc = "serving"
    /\ \E tool_name \in CallNames :
        response' = [op |-> "get_connector_for_tool", tool_name |-> tool_name,
                     found |-> get_connector_for_tool(connectors, tool_name)]
    /\ UNCHANGED <<pc, connectors, users, connector_credentials, sessions, now, inflight>>

\* registry.execute_tool(tool_name, parameters, auth_data)
ExecuteTool ==
    /\ pc = "serving"
    /\ \E tool_name \in CallNames, parameters \in Parameters,
          auth_data \in Credentials \cup {None} :
        LET r == execute_tool(connectors, tool_name, parameters, auth_data)
        IN  response' = [op |-> "execute_tool", tool_name |-> tool_name,
                         parameters |-> parameters, auth_data |-> auth_data,
                         calls |-> r.calls, outcome |-> r.outcome]
    /\ UNCHANGED <<pc, connectors, users, connector_credentials, sessions, now, inflight>>

\* variant: a call uses up the credentials of the user who made it
CallToolFrom_consuming(requests) ==
    /\ pc = "serving"
    /\ \E x_auth \in XAuthValues, request \in requests :
        LET r == call_tool(connectors, users, connector_credentials, request)
        IN  IF verify_auth(x_auth).raised # ""
            THEN response' = [op |-> "call_tool", x_auth |-> x_auth,
                              status |-> 401, calls |-> <<>>,
                              body |-> [detail |-> verify_auth(x_auth).message]]
            ELSE response' = [op |-> "call_tool", x_auth |-> x_auth,
                              status |-> 200, request |-> request,
                              calls |-> r.calls, body |-> r.body]
    /\ connector_credentials' =
          [k \in {q \in DOMAIN connector_credentials :
                     response'.status = 401 \/ q[1] # response'.request.user_id}
              |-> connector_credentials[k]]
    /\ UNCHANGED <<pc, connectors, users, sessions, now, inflight>>

\* POST /tools/call
CallToolFrom(requests) ==
    /\ pc = "serving"
    /\ \E x_auth \in XAuthValues, request \in requests :
        LET r == call_tool(connectors, users, connector_credentials, request)
        IN  IF verify_auth(x_auth).raised # ""
            THEN response' = [op |-> "call_tool", x_auth |-> x_auth,
                              status |-> 401, calls |-> <<>>,
                              body |-> [detail |-> verify_auth(x_auth).message]]
            ELSE response' = [op |-> "call_tool", x_auth |-> x_auth,
                              status |-> 200, request |-> request,
                              calls |-> r.calls, body |-> r.body]
    /\ UNCHANGED <<pc, connectors, users, connector_credentials, sessions, now, inflight>>

CallTool == CallToolFrom(Requests)

\* POST /tools/call for the tools of the shipped units
CallShipped == CallToolFrom(ShippedRequests)

\* auth_store.create_user(user_id, {})
CreateUser ==
    /\ \E user_id \in UserIds : users' = users \cup {user_id}
    /\ response' = [op |-> "create_user"]
    /\ UNCHANGED <<pc, connectors, connector_credentials, sessions, now, inflight>>

\* auth_store.store_connector_credentials(user_id, connector_name, credentials)
StoreFrom(user_ids, values) ==
    /\ \E user_id \in user_ids, connector_name \in CredentialNames,
          credentials \in values :
        /\ connector_credentials' =
               store_connector_credentials(connector_credentials, user_id,
                                           connector_name, credentials)
        /\ response' = [op |-> "store_connector_credentials",
                        user_id |-> user_id, connector_name |-> connector_name,
                        credentials |-> credentials]
    /\ UNCHANGED <<pc, connectors, users, sessions, now, inflight>>

StoreConnectorCredentials == StoreFrom(UserIds, Credentials)

\* auth_store.delete_connector_credentials(user_id, connector_name)
DeleteFrom(user_ids) ==
    /\ \E user_id \in user_ids, connector_name \in CredentialNames :
        /\ connector_credentials' =
               delete_connector_credentials(connector_credentials, user_id,
                                            connector_name)
        /\ response' = [op |-> "delete_connector_credentials",
                        user_id |-> user_id, connector_name |-> connector_name,
                        deleted |-> <<user_id, connector_name>>
                                        \in DOMAIN connector_credentials]
    /\ UNCHANGED <<pc, connectors, users, sessions, now, inflight>>

DeleteConnectorCredentials == DeleteFrom(UserIds)

\* auth_store.get_connector_credentials(user_id, connector_name)
GetFrom(user_ids) ==
    /\ \E user_id \in user_ids, connector_name \in CredentialNames :
        response' = [op |-> "get_connector_credentials",
                     user_id |-> user_id, connector_name |-> connector_name,
                     credentials |->
                         get_connector_credentials(connector_credentials,
                                                   user_id, connector_name)]
    /\ UNCHANGED <<pc, connectors, users, connector_credentials, sessions, now, inflight>>

\* the credential store used by two users with several credential values
PutCredentials == StoreFrom(StoreUserIds, StoreCredentials)

DeleteCredentials == DeleteFrom(StoreUserIds)

GetCredentials == GetFrom(StoreUserIds)

\* connector.execute(...) is entered: the coroutine holds its arguments
ExecuteEnter(slot) ==
    /\ pc = "serving"
    /\ inflight[slot].state # "running"
    /\ \E i \in 1..Len(connectors), tool_name \in ConcurrentTools,
          auth_data \in {None} \cup Credentials :
        inflight' = [inflight EXCEPT ![slot] =
                        [state |-> "running",
                         id |-> connectors[i].id,
                         connector_name |-> connectors[i].connector_name,
                         tool_name |-> tool_name,
                         parameters |-> [channel |-> "#general", text |-> "hi"],
                         auth_data |-> auth_data]]
    /\ UNCHANGED <<pc, connectors, users, connector_credentials, response,
                   sessions, now>>

\* variant: the unit counts its calls in a field of its own
ExecuteLeave_counting(slot) ==
    /\ inflight[slot].state = "running"
    /\ LET call == inflight[slot]
           i == IndexOf(connectors, call.connector_name)
       IN  /\ connectors' = [connectors EXCEPT ![i].manifest.info = "called"]
           /\ inflight' = [inflight EXCEPT ![slot] =
                  [call EXCEPT !.state = "done"] @@
                  [at |-> now,
                   outcome |-> IF connectors[i].manifest.info = "called"
                               THEN Return([calls |-> "many"])
                               ELSE execute_at(connectors[i], call.tool_name,
                                               call.parameters, call.auth_data,
                                               now)]]
    /\ UNCHANGED <<pc, users, connector_credentials, response, sessions, now>>

\* connector.execute(...) runs to its return
ExecuteLeave(slot) ==
    /\ inflight[slot].state = "running"
    /\ LET call == inflight[slot]
       IN  inflight' = [inflight EXCEPT ![slot] =
               [call EXCEPT !.state = "done"] @@
               [at |-> now,
                outcome |-> execute_at(Lookup(connectors, call.connector_name),
                                       call.tool_name, call.parameters,
                                       call.auth_data, now)]]
    /\ UNCHANGED <<pc, connectors, users, connector_credentials, response,
                   sessions, now>>

\* auth_store.create_session(user_id, session_data)
CreateSession ==
    /\ \E session_id \in SessionIds \ DOMAIN sessions, user_id \in UserIds,
          session_data \in SessionData :
        /\ sessions' = create_session(sessions, session_id, user_id,
                                      session_data, now)
        /\ response' = [op |-> "create_session", session_id |-> session_id]
    /\ UNCHANGED <<pc, connectors, users, connector_credentials, now, inflight>>

\* auth_store.get_session(session_id)
GetSession ==
    /\ \E session_id \in SessionIds :
        /\ sessions' = get_session(sessions, session_id, now).sessions
        /\ response' = [op |-> "get_session", session_id |-> session_id,
                        session |-> get_session(sessions, session_id, now).value]
    /\ UNCHANGED <<pc, connectors, users, connector_credentials, now, inflight>>

\* auth_store.invalidate_session(session_id)
InvalidateSession ==
    /\ \E session_id \in SessionIds :
        /\ sessions' = invalidate_session(sessions, session_id).sessions
        /\ response' = [op |-> "invalidate_session", session_id |-> session_id,
                        invalidated |->
                            invalidate_session(sessions, session_id).value]
    /\ UNCHANGED <<pc, connectors, users, connector_credentials, now, inflight>>

\* auth_store.cleanup_expired_sessions(), as GET /health calls it
CleanupExpiredSessions ==
    /\ sessions' = cleanup_expired_sessions(sessions, now).sessions
    /\ response' = [op |-> "cleanup_expired_sessions",
                    count |-> cleanup_expired_sessions(sessions, now).value]
    /\ UNCHANGED <<pc, connectors, users, connector_credentials, now, inflight>>

\* half a day passes
Advance ==
    /\ now < MaxClock
    /\ now' = now + ClockStep
    /\ UNCHANGED <<pc, connectors, users, connector_credentials, response,
                   sessions, inflight>>

\* time passes
Tick ==
    /\ now < MaxNow
    /\ now' = now + 1
    /\ UNCHANGED <<pc, connectors, users, connector_credentials, response,
                   sessions, inflight>>

\* the registry: startup scan, reloads, catalog reads and resolutions
NextRegistry ==
    \/ Boot
    \/ GetToolsManifest
    \/ GetConnectorForTool
    \/ ReloadConnector

SpecRegistry == Init /\ [][NextRegistry]_vars

\* registry.execute_tool over the registry the startup scan built
NextExecute ==
    \/ Boot
    \/ ExecuteTool

SpecExecute == Init /\ [][NextExecute]_vars

\* the dispatch facade and the credential store
NextFacade ==
    \/ Boot
    \/ CallTool
    \/ CreateUser
    \/ StoreConnectorCredentials
    \/ DeleteConnectorCredentials

SpecFacade == Init /\ [][NextFacade]_vars

\* the facade and the auth store over the three shipped units
NextShipped ==
    \/ BootShipped
    \/ CallShipped
    \/ CreateUser
    \/ StoreConnectorCredentials
    \/ DeleteConnectorCredentials

SpecShipped == Init /\ [][NextShipped]_vars

\* the endpoints of main.py that read or change the registry
NextGate ==
    \/ Boot
    \/ GetToolsManifest
    \/ ReloadConnector
    \/ CallTool

SpecGate == Init /\ [][NextGate]_vars

\* the registry over unvalidated directories
NextLoose ==
    \/ BootLoose
    \/ GetToolsManifest
    \/ ReloadLoose

SpecLoose == Init /\ [][NextLoose]_vars

\* execute calls on the shipped units, entered and left in any order
NextConcurrent ==
    \/ BootShipped
    \/ \E slot \in Slots : ExecuteEnter(slot)
    \/ \E slot \in Slots : ExecuteLeave(slot)
    \/ Tick

SpecConcurrent == Init /\ [][NextConcurrent]_vars

\* the routing core over the shipped units, next to a credential store that
\* holds entries
NextCore ==
    \/ BootShipped
    \/ GetToolsManifest
    \/ CallShipped
    \/ ReloadShipped
    \/ CreateUser
    \/ StoreConnectorCredentials

SpecCore == Init /\ [][NextCore]_vars

\* the session table of the auth store, with time advancing
NextSessions ==
    \/ CreateSession
    \/ GetSession
    \/ InvalidateSession
    \/ CleanupExpiredSessions
    \/ Advance

SpecSessions == Init /\ [][NextSessions]_vars

\* the credential store on its own
NextStore ==
    \/ PutCredentials
    \/ GetCredentials
    \/ DeleteCredentials

SpecStore == Init /\ [][NextStore]_vars

\* the facade over shipped and other units
NextPlugin ==
    \/ BootPlugin
    \/ CallTool

SpecPlugin == Init /\ [][NextPlugin]_vars

Next ==
    NextRegistry \/ NextExecute \/ NextFacade \/ NextShipped \/ NextGate
        \/ NextLoose \/ NextPlugin \/ NextStore \/ NextConcurrent \/ NextCore
        \/ NextSessions

Spec == Init /\ [][Next]_vars

----------------------------------------------------------------------------
(* Properties.  The manifests of all specifications above hold tool        *)
(* descriptors as the data model defines them: every tool has a name, and  *)
(* names are unique within a unit.  Tool names may contain '.'.            *)

Range(seq) == {seq[i] : i \in 1..Len(seq)}

RECURSIVE EntriesBefore(_, _)
\* the number of catalog entries the units before position i account for
EntriesBefore(cs, i) ==
    IF i <= 1 THEN 0
    ELSE EntriesBefore(cs, i - 1) + 2 * Len(get_tools(cs[i - 1]))

NamespacedName(connector_name, tool_name) == connector_name \o <<DOT>> \o tool_name

Declares(c, tool_name) ==
    \E k \in 1..Len(get_tools(c)) : get_tools(c)[k].name = tool_name

\* C1: the catalog returned by get_all_tools is, unit by unit in registration
\* order, the unit's namespaced descriptors in catalog order immediately
\* followed by its bare descriptors in the same order.
C1_CatalogOrder ==
    response.op = "get_tools_manifest" =>
        LET all == response.all_tools.value
        IN  /\ response.all_tools.raised = ""
            /\ Len(all) = EntriesBefore(connectors, Len(connectors) + 1)
            /\ \A i \in 1..Len(connectors) :
                 LET tools == get_tools(connectors[i])
                     base == EntriesBefore(connectors, i)
                 IN  \A k \in 1..Len(tools) :
                       /\ all[base + k] =
                            [name |-> NamespacedName(connectors[i].connector_name,
                                                     tools[k].name),
                             description |-> tools[k].description]
                       /\ all[base + Len(tools) + k] = tools[k]

\* slack(send_message) registered before google_calendar(list_events, s.m):
\* the catalog has been read and holds six entries
C1_Witness ==
    /\ response.op = "get_tools_manifest"
    /\ Len(connectors) = 2
    /\ connectors[1].connector_name = slack
    /\ Len(get_tools(connectors[1])) = 1
    /\ Len(get_tools(connectors[2])) = 2
    /\ Len(response.all_tools.value) = 6

\* C2 (as stated): for two registered units that both declare a tool named
\* X, resolving X returns the one registered first, and resolving "U2.X"
\* returns U2 whichever was registered first.
C2_FirstMatchAnyName ==
    \A i, j \in 1..Len(connectors) : \A X \in ToolNames :
        (i < j /\ Declares(connectors[i], X) /\ Declares(connectors[j], X)) =>
            /\ get_connector_for_tool(connectors, X) = Return(connectors[i])
            /\ \A u \in {i, j} :
                 get_connector_for_tool(connectors,
                     NamespacedName(connectors[u].connector_name, X))
                   = Return(connectors[u])

\* C2 (amended): the same for every X that contains no '.'; a resolution
\* that was asked for X, or for "U.X", returned accordingly.
C2_FirstMatch ==
    /\ \A i, j \in 1..Len(connectors) : \A X \in ToolNames :
        (i < j /\ Declares(connectors[i], X) /\ Declares(connectors[j], X)) =>
            /\ ~Contains(X, DOT) =>
                 get_connector_for_tool(connectors, X) = Return(connectors[i])
            /\ \A u \in {i, j} :
                 get_connector_for_tool(connectors,
                     NamespacedName(connectors[u].connector_name, X))
                   = Return(connectors[u])
    /\ response.op = "get_connector_for_tool" =>
        \A i, j \in 1..Len(connectors) : \A X \in ToolNames :
            (i < j /\ Declares(connectors[i], X) /\ Declares(connectors[j], X)) =>
              /\ (response.tool_name = X /\ ~Contains(X, DOT)) =>
                    response.found = Return(connectors[i])
              /\ \A u \in {i, j} :
                   response.tool_name
                       = NamespacedName(connectors[u].connector_name, X) =>
                     response.found = Return(connectors[u])

\* both units declare send_message and the bare name has been resolved
C2_Witness ==
    /\ response.op = "get_connector_for_tool"
    /\ response.tool_name = send_message
    /\ Len(connectors) = 2
    /\ Declares(connectors[1], send_message)
    /\ Declares(connectors[2], send_message)
    /\ connectors[1].connector_name = google_calendar
    /\ response.found = Return(connectors[1])

\* C3: resolution returns nothing for a namespaced name whose prefix is not
\* a registered unit, for a namespaced name whose unit does not list the
\* remainder (whatever the other units declare), and for a bare name that no
\* registered unit declares.
C3_NoMatch ==
    response.op = "get_connector_for_tool" =>
        LET n == response.tool_name
            dots == {i \in 1..Len(n) : n[i] = DOT}
            cut == CHOOSE i \in dots : \A j \in dots : i <= j
            prefix == SubSeq(n, 1, cut - 1)
            remainder == SubSeq(n, cut + 1, Len(n))
            unserved ==
                IF dots # {}
                THEN \A i \in 1..Len(connectors) :
                        connectors[i].connector_name = prefix =>
                            ~Declares(connectors[i], remainder)
                ELSE \A i \in 1..Len(connectors) : ~Declares(connectors[i], n)
        IN  unserved => response.found = Return(None)

\* google_calendar.send_message was asked for while google_calendar does not
\* declare send_message and slack does: nothing is returned
C3_Witness ==
    /\ response.op = "get_connector_for_tool"
    /\ response.tool_name = NamespacedName(google_calendar, send_message)
    /\ \E i, j \in 1..Len(connectors) :
        /\ connectors[i].connector_name = google_calendar
        /\ ~Declares(connectors[i], send_message)
        /\ connectors[j].connector_name = slack
        /\ Declares(connectors[j], send_message)
    /\ response.found.value = None

\* the bare name of a call: the text after the first '.', or the whole name
BareNameOf(n) ==
    IF \E i \in 1..Len(n) : n[i] = DOT
    THEN CHOOSE b \in {SubSeq(n, i + 1, Len(n)) : i \in 1..Len(n)} :
            \E a \in {SubSeq(n, 1, i - 1) : i \in 1..Len(n)} :
                /\ n = a \o <<DOT>> \o b
                /\ \A i \in 1..Len(a) : a[i] # DOT
    ELSE n

\* C4: execute_tool raises the tool-not-found error and invokes no unit when
\* resolution returns nothing; otherwise it invokes execute once, on the unit
\* resolution returned, with the bare tool name and the caller's parameters
\* and auth_data, and hands back that unit's outcome unchanged.
C4_ExecuteTool ==
    response.op = "execute_tool" =>
        LET found == get_connector_for_tool(connectors, response.tool_name)
        IN  IF found.value = None
            THEN /\ response.outcome.raised = "ValueError"
                 /\ response.outcome.message
                        = <<"No connector found for tool: ", response.tool_name>>
                 /\ response.calls = <<>>
            ELSE /\ response.calls =
                        <<[id |-> found.value.id,
                           connector_name |-> found.value.connector_name,
                           tool_name |-> BareNameOf(response.tool_name),
                           parameters |-> response.parameters,
                           auth_data |-> response.auth_data]>>
                 /\ response.outcome =
                        execute(found.value, BareNameOf(response.tool_name),
                                response.parameters, response.auth_data)

\* slack.s.m was executed on a slack unit that declares the tool "s.m": the
\* unit was invoked with "s.m", the text after the first '.'
C4_Witness ==
    /\ response.op = "execute_tool"
    /\ response.tool_name = NamespacedName(slack, dotted_tool)
    /\ Len(response.calls) = 1
    /\ response.calls[1].connector_name = slack
    /\ response.calls[1].tool_name = dotted_tool
    /\ response.auth_data # None

DisjointToolNames(cs) ==
    \A i, j \in 1..Len(cs) : \A X \in ToolNames :
        (Declares(cs[i], X) /\ Declares(cs[j], X)) => i = j

DotFreeToolNames(cs) ==
    \A i \in 1..Len(cs) : \A X \in ToolNames :
        Declares(cs[i], X) => ~Contains(X, DOT)

CountNamed(all, n) == Cardinality({k \in 1..Len(all) : all[k].name = n})

TwiceListedAndResolved(cs, all) ==
    /\ Len(all) = EntriesBefore(cs, Len(cs) + 1)
    /\ \A i \in 1..Len(cs) : \A X \in ToolNames :
        Declares(cs[i], X) =>
            /\ CountNamed(all, X) = 1
            /\ CountNamed(all, NamespacedName(cs[i].connector_name, X)) = 1
            /\ get_connector_for_tool(cs, X) = Return(cs[i])

\* C5 (as stated): when the registered units have pairwise disjoint tool
\* names, the catalog lists every declared tool exactly twice, once under its
\* namespaced and once under its bare name, and each bare name resolves to
\* the unit that declares it.
C5_DisjointAnyName ==
    (response.op = "get_tools_manifest" /\ DisjointToolNames(connectors)) =>
        TwiceListedAndResolved(connectors, response.all_tools.value)

\* C5 (amended): the same when, in addition, no tool name contains '.'.
C5_Disjoint ==
    (response.op = "get_tools_manifest" /\ DisjointToolNames(connectors)
        /\ DotFreeToolNames(connectors)) =>
        TwiceListedAndResolved(connectors, response.all_tools.value)

\* slack(send_message) and google_calendar(list_events) are registered and
\* the catalog has been read
C5_Witness ==
    /\ response.op = "get_tools_manifest"
    /\ Len(connectors) = 2
    /\ DisjointToolNames(connectors)
    /\ DotFreeToolNames(connectors)
    /\ \A i \in 1..2 : Len(get_tools(connectors[i])) = 1
    /\ Len(response.all_tools.value) = 4

\* every name a caller may ask for
AskedNames ==
    CallNames \cup ToolNames
        \cup {NamespacedName(u, X) : u \in DirNames, X \in ToolNames}

ReloadStep == pc = "serving" /\ response'.op = "reload_connector"

OthersUntouched(name) ==
    /\ \A i \in 1..Len(connectors) :
        connectors[i].connector_name # name => connectors[i] \in Range(connectors')
    /\ \A j \in 1..Len(connectors') :
        connectors'[j].connector_name # name => connectors'[j] \in Range(connectors)

\* C6: a successful reload of a unit replaces only that unit's entry: every
\* other unit keeps its instance and its tools, and every name that resolved
\* to another unit before the reload resolves to that unit after it.
C6_ReloadFrame ==
    [][(ReloadStep /\ response'.status = 200) =>
        LET name == response'.connector_name
        IN  /\ OthersUntouched(name)
            /\ Names(connectors') = Names(connectors) \cup {name}
            /\ \A n \in AskedNames :
                LET before == get_connector_for_tool(connectors, n)
                IN  (before.value # None /\ before.value.connector_name # name)
                        => get_connector_for_tool(connectors', n) = before
       ]_vars

\* a registered unit was reloaded with success next to another unit that
\* declares tools
C6_Witness ==
    /\ response.op = "reload_connector"
    /\ response.status = 200
    /\ response.was_registered
    /\ Len(connectors) = 2
    /\ \A i \in 1..2 : get_tools(connectors[i]) # <<>>
    /\ \E X \in ToolNames : Declares(connectors[1], X) /\ Declares(connectors[2], X)

\* C7: when the load step of a reload of a registered unit fails, the unit
\* is gone from the registry, none of its namespaced names resolve, the other
\* entries are as before and the caller gets the failure; a unit absent from
\* the registry becomes present only by a successful reload of that unit.
C7_FailedReload ==
    [][/\ (ReloadStep /\ response'.status = 500
              /\ response'.connector_name \in Names(connectors)) =>
            LET name == response'.connector_name
            IN  /\ name \notin Names(connectors')
                /\ Names(connectors') = Names(connectors) \ {name}
                /\ OthersUntouched(name)
                /\ \A X \in ToolNames :
                     get_connector_for_tool(connectors', NamespacedName(name, X))
                        = Return(None)
                /\ response'.status = 500
                /\ response'.raised # ""
       /\ \A name \in DirNames \cup ReloadNames :
            (pc = "serving" /\ name \notin Names(connectors)
                /\ name \in Names(connectors')) =>
                /\ response'.op = "reload_connector"
                /\ response'.connector_name = name
                /\ response'.status = 200
      ]_vars

\* the reload of a registered unit has failed and another unit is registered
C7_Witness ==
    /\ response.op = "reload_connector"
    /\ response.status = 500
    /\ response.was_registered
    /\ response.connector_name \notin Names(connectors)
    /\ Len(connectors) = 1

\* C8: a catalog read that runs once a reload of a registered unit U has been
\* requested observes U, as its old or its new instance, and every other
\* unit.
C8_ReadsSeeOldOrNew ==
    [][(response.op = "reload_connector" /\ response.was_registered
            /\ response'.op = "get_tools_manifest") =>
        response.connector_name \in Range(response'.connectors)
      ]_vars

\* C9: the startup scan tries every directory whose name does not start
\* with '_' and skips the ones that fail, so that the registry holds, in the
\* order of the listing, exactly the candidates whose load succeeded.
Loadable(name, pkg) ==
    /\ pkg.module.exists
    /\ \/ name = slack /\ SlackConnector \in pkg.module.classes
       \/ name = google_calendar /\ GoogleCalendarConnector \in pkg.module.classes
    /\ pkg.manifest.exists
    /\ pkg.manifest.parses

C9_ScanIsolatesFailures ==
    response.op = "load_connectors" =>
        LET listing == response.listing
            disk == response.disk
            loaded == {i \in 1..Len(listing) :
                          listing[i][1] # UNDERSCORE
                          /\ Loadable(listing[i], disk[listing[i]])}
        IN  /\ Names(connectors) = {listing[i] : i \in loaded}
            /\ \A i, j \in loaded :
                 i < j => IndexOf(connectors, listing[i]) < IndexOf(connectors, listing[j])
            /\ \A i \in loaded :
                 Lookup(connectors, listing[i]).manifest = disk[listing[i]].manifest.content

\* the first candidate of the scan failed to load and a later one is
\* registered
C9_Witness ==
    /\ response.op = "load_connectors"
    /\ \E i, j \in 1..Len(response.listing) :
        /\ i < j
        /\ response.listing[i][1] # UNDERSCORE
        /\ ~Loadable(response.listing[i], response.disk[response.listing[i]])
        /\ response.listing[j] \in Names(connectors)

HasError(result) == result # None /\ "error" \in DOMAIN result

\* C10: when the unit's execute returns a map with an error field, the
\* response of call_tool has success = false and carries that error message.
C10_ErrorPayloadIsFailure ==
    (response.op = "call_tool" /\ Len(response.calls) = 1) =>
        LET call == response.calls[1]
            unit == Lookup(connectors, call.connector_name)
            outcome == execute(unit, call.tool_name, call.parameters, call.auth_data)
        IN  (outcome.raised = "" /\ HasError(outcome.value)) =>
                /\ response.body.success = FALSE
                /\ response.body.error = outcome.value.error

----------------------------------------------------------------------------
\* the outcome of the unit invocation recorded in an answered call
OutcomeOfCall(call) ==
    execute(Lookup(connectors, call.connector_name), call.tool_name,
            call.parameters, call.auth_data)

Answered == response.op = "call_tool" /\ response.status = 200

\* C11: every authenticated call_tool is answered with an envelope of exactly
\* the fields success, result and error; when the name did not resolve or the
\* unit's execute raised, success is false and error is populated, so no
\* fault leaves the handler.
C11_Envelope ==
    Answered =>
        /\ DOMAIN response.body = {"success", "result", "error"}
        /\ response.body.success \in BOOLEAN
        /\ response.body.success => response.body.error = None
        /\ (Len(response.calls) = 0) =>
               (~response.body.success /\ response.body.error # None)
        /\ (Len(response.calls) = 1 /\ OutcomeOfCall(response.calls[1]).raised # "") =>
               (~response.body.success /\ response.body.error # None)

C11_Witness ==
    /\ Answered
    /\ Len(response.calls) = 1
    /\ OutcomeOfCall(response.calls[1]).raised = "TypeError"
    /\ ~response.body.success

\* C12: a call_tool request that carries a credential context and whose tool
\* name resolves to a unit (by its prefix or, for a bare name, by resolution)
\* hands that unit's execute the credentials the store holds for the context
\* and that unit.
C12_AuthDataIsStoredCredentials ==
    (Answered /\ Len(response.calls) = 1 /\ response.request.user_id # NoUser) =>
        response.calls[1].auth_data =
            get_connector_credentials(connector_credentials,
                                      response.request.user_id,
                                      response.calls[1].connector_name)

\* no credentials are stored for the answered call, or it names no context
NoStoredCredentials ==
    \/ response.request.user_id = NoUser
    \/ get_connector_credentials(connector_credentials, response.request.user_id,
                                 response.calls[1].connector_name) = None

\* C13: when no credentials are stored for the call or it names no context,
\* the facade hands the unit empty auth_data; each shipped unit then returns,
\* without raising, an auth-required result with an error message, and the
\* caller receives that result unchanged.
C13_AuthRequired ==
    (Answered /\ Len(response.calls) = 1 /\ NoStoredCredentials) =>
        /\ response.calls[1].auth_data = None
        /\ OutcomeOfCall(response.calls[1]).raised = ""
        /\ OutcomeOfCall(response.calls[1]).value = AuthRequired
        /\ AuthRequired.auth_required
        /\ "error" \in DOMAIN AuthRequired
        /\ DOMAIN response.body = {"success", "result", "error"}
        /\ response.body.result = OutcomeOfCall(response.calls[1]).value

C13_Witness ==
    /\ Answered
    /\ Len(response.calls) = 1
    /\ NoStoredCredentials
    /\ response.calls[1].connector_name = google_tasks
    /\ response.body.result = AuthRequired
    /\ \E i, j \in 1..Len(connectors) :
          /\ connectors[i].class = SlackConnector
          /\ connectors[j].class = GoogleCalendarConnector

\* C14: a unit whose manifest is missing, does not parse or holds a tool
\* without a name is not registered by the startup scan; every tool of every
\* registered unit has a name, and get_all_tools never fails.
C14_WellFormedRegistry ==
    /\ response.op = "load_connectors" =>
          \A d \in DOMAIN response.disk :
             LET file == response.disk[d].manifest
             IN  (\/ ~file.exists
                  \/ ~file.parses
                  \/ \E k \in 1..Len(Get(file.content, "tools", <<>>)) :
                        ~HasName(file.content.tools[k]))
                 => d \notin Names(connectors)
    /\ \A i \in 1..Len(connectors) :
          \A k \in 1..Len(get_tools(connectors[i])) :
             HasName(get_tools(connectors[i])[k])
    /\ get_all_tools(connectors).raised = ""
    /\ response.op = "get_tools_manifest" => response.all_tools.raised = ""

NoToolsList(manifest) == "tools" \notin DOMAIN manifest

\* C15: a unit whose manifest has no tools list loads and registers with zero
\* tools: get_tools and get_namespaced_tools are empty, the unit adds nothing
\* to get_all_tools, it is in the list of units, and no tool name resolves to
\* it.
C15_NoToolsListIsZeroTools ==
    /\ response.op = "load_connectors" =>
          \A d \in DOMAIN response.disk :
             (/\ d[1] # UNDERSCORE
              /\ Loadable(d, response.disk[d])
              /\ NoToolsList(response.disk[d].manifest.content))
             => /\ d \in Names(connectors)
                /\ NoToolsList(Lookup(connectors, d).manifest)
    /\ \A i \in 1..Len(connectors) :
          NoToolsList(connectors[i].manifest) =>
             /\ get_tools(connectors[i]) = <<>>
             /\ get_namespaced_tools(connectors[i]) = Return(<<>>)
             /\ connectors[i].connector_name \in Range(list_connectors(connectors))
             /\ get_all_tools(connectors) =
                   get_all_tools(DictDel(connectors, connectors[i].connector_name))
             /\ \A n \in AskedNames :
                   get_connector_for_tool(connectors, n) # Return(connectors[i])
             /\ response.op = "get_connector_for_tool" =>
                   response.found # Return(connectors[i])
             /\ response.op = "get_tools_manifest" =>
                   connectors[i].connector_name \in Range(response.connectors)

\* the catalog was read while a unit without a tools list and a unit with
\* tools were registered
C15_Witness ==
    /\ response.op = "get_tools_manifest"
    /\ response.all_tools.raised = ""
    /\ Len(response.all_tools.value) > 0
    /\ \E i \in 1..Len(connectors) :
          /\ NoToolsList(connectors[i].manifest)
          /\ connectors[i].connector_name \in Range(response.connectors)

PostStep ==
    /\ pc = "serving"
    /\ response'.op \in {"call_tool", "reload_connector"}

\* C16: call_tool and reload_connector run only when the X-Auth header equals
\* the shared secret; with the header missing or different the request is
\* answered 401, no unit's execute is invoked and the registry is unchanged.
\* The catalog read carries no header and is always answered.
C16_PostNeedsSecret ==
    [][/\ PostStep =>
            /\ (response'.x_auth # SharedSecret) <=> (response'.status = 401)
            /\ response'.status = 401 =>
                  /\ connectors' = connectors
                  /\ response'.op = "call_tool" =>
                        (response'.calls = <<>> /\ "detail" \in DOMAIN response'.body)
       /\ (pc = "serving" /\ response'.op = "get_tools_manifest") =>
            /\ "x_auth" \notin DOMAIN response'
            /\ response'.all_tools = get_all_tools(connectors)]_vars

\* a call with a wrong header was refused while a unit was registered
C16_Witness ==
    /\ response.op = "call_tool"
    /\ response.x_auth = "wrong"
    /\ response.status = 401
    /\ Len(connectors) > 0

ReadStep ==
    /\ pc = "serving"
    /\ response'.op \in {"get_tools_manifest", "get_connector_for_tool"}

\* C17: get_all_tools and get_connector_for_tool are read-only: a read leaves
\* the registry as it was, and reading again with no mutation in between
\* gives the same result.
C17_ReadsAreRepeatable ==
    [][ReadStep =>
          /\ connectors' = connectors
          /\ response'.op = "get_tools_manifest" =>
                /\ response'.all_tools = get_all_tools(connectors')
                /\ response.op = "get_tools_manifest" =>
                      response'.all_tools = response.all_tools
          /\ response'.op = "get_connector_for_tool" =>
                /\ response'.found =
                      get_connector_for_tool(connectors', response'.tool_name)
                /\ (response.op = "get_connector_for_tool"
                    /\ response.tool_name = response'.tool_name) =>
                      response'.found = response.found]_vars

\* a resolution found a unit of a registry whose catalog is not empty, and
\* resolving the same name again gives the same unit
C17_Witness ==
    /\ response.op = "get_connector_for_tool"
    /\ response.found.value # None
    /\ get_all_tools(connectors).value # <<>>
    /\ get_connector_for_tool(connectors, response.tool_name) = response.found

\* get_namespaced_tools(c) is get_tools(c) with every name prefixed
NamespacedView(c) ==
    LET tools == get_tools(c)
        view == get_namespaced_tools(c)
    IN  /\ view.raised = ""
        /\ Len(view.value) = Len(tools)
        /\ \A k \in 1..Len(tools) :
              /\ DOMAIN view.value[k] = DOMAIN tools[k]
              /\ view.value[k].name = c.connector_name \o <<DOT>> \o tools[k].name
              /\ \A f \in DOMAIN tools[k] \ {"name"} : view.value[k][f] = tools[k][f]

\* C18: get_namespaced_tools returns one descriptor per descriptor of
\* get_tools, in the same order, whose name is "<unit>.<tool>" and whose other
\* fields are equal; producing it for the catalog leaves every unit's
\* get_tools as it was.
C18_NamespacedView ==
    [][/\ \A i \in 1..Len(connectors') : NamespacedView(connectors'[i])
       /\ (pc = "serving" /\ response'.op = "get_tools_manifest") =>
             /\ Len(connectors') = Len(connectors)
             /\ \A i \in 1..Len(connectors) :
                   get_tools(connectors'[i]) = get_tools(connectors[i])]_vars

\* the catalog was read from a unit with two tools, one of them namespaced
\* "g_c.e"
C18_Witness ==
    /\ response.op = "get_tools_manifest"
    /\ \E i \in 1..Len(connectors) :
          /\ Len(get_tools(connectors[i])) = 2
          /\ connectors[i].connector_name = google_calendar
          /\ get_tools(connectors[i])[2].name = list_events
          /\ get_namespaced_tools(connectors[i]).value[2].name
                = <<"g", "_", "c", ".", "e">>
          /\ response.all_tools.value[EntriesBefore(connectors, i) + 2]
                = get_namespaced_tools(connectors[i]).value[2]

ReportedNotFound ==
    ~response.body.success /\ response.body.error[1] = "Tool not found: "

ReportedExecutionFailure ==
    ~response.body.success /\ response.body.error[1] = "Tool execution failed: "

\* C19: the facade reports tool-not-found exactly when the tool name did not
\* resolve to a unit; a fault of any type raised by the execute of a resolved
\* unit is reported as an execution failure, never as tool-not-found.
C19_NotFoundIffUnresolved ==
    Answered =>
        /\ ReportedNotFound <=> (Len(response.calls) = 0)
        /\ (Len(response.calls) = 1
            /\ OutcomeOfCall(response.calls[1]).raised # "") =>
              ReportedExecutionFailure

CredentialKeys == StoreUserIds \X CredentialNames

Stored(creds, key) == get_connector_credentials(creds, key[1], key[2])

OtherKeysKept(key) ==
    \A other \in CredentialKeys \ {key} :
        Stored(connector_credentials', other) = Stored(connector_credentials, other)

\* C20: get(c, u) returns what the latest put(c, u, .) stored unless a
\* delete(c, u) followed it, and nothing otherwise; delete(c, u) returns true
\* exactly when an entry for (c, u) existed; put and delete on one key leave
\* the value of every other key unchanged.  Stated step by step: a put makes
\* its value the stored one, a delete makes the key empty, a get returns the
\* stored value, and no step changes any other key.
C20_CredentialStore ==
    [][LET key == <<response'.user_id, response'.connector_name>>
       IN  /\ response'.op = "store_connector_credentials" =>
                 /\ Stored(connector_credentials', key) = response'.credentials
                 /\ OtherKeysKept(key)
           /\ response'.op = "delete_connector_credentials" =>
                 /\ response'.deleted = (key \in DOMAIN connector_credentials)
                 /\ response'.deleted = (Stored(connector_credentials, key) # None)
                 /\ Stored(connector_credentials', key) = None
                 /\ OtherKeysKept(key)
           /\ response'.op = "get_connector_credentials" =>
                 /\ response'.credentials = Stored(connector_credentials, key)
                 /\ connector_credentials' = connector_credentials]_vars

\* a get returned the value put under a key while another user's entry for
\* the same unit held a different value and a third key held nothing
C20_Witness ==
    /\ response.op = "get_connector_credentials"
    /\ response.user_id = "u1"
    /\ response.connector_name = slack
    /\ response.credentials = [access_token |-> "new"]
    /\ Stored(connector_credentials, <<"u2", slack>>) = [access_token |-> "tok"]
    /\ Stored(connector_credentials, <<"u1", google_calendar>>) = None

\* what _load_connector(name) does to the registry cs when the directory
\* holds pkg
LoadOutcome(cs, name, pkg) ==
    LET r == load_connector(cs, name, pkg, Ids(cs))
        expected == connector_class_name(name)
    IN  IF r.raised = ""
        THEN /\ Names(r.connectors) = Names(cs) \cup {name}
             /\ Len(r.connectors) = Cardinality(Names(r.connectors))
             /\ Lookup(r.connectors, name).connector_name = name
             /\ Lookup(r.connectors, name).id \notin Ids(cs)
             /\ Lookup(r.connectors, name).manifest = pkg.manifest.content
             /\ \A other \in Names(cs) \ {name} :
                   Lookup(r.connectors, other) = Lookup(cs, other)
        ELSE /\ r.connectors = cs
             /\ \/ r.raised = "FileNotFoundError" /\ ~pkg.module.exists
                \/ r.raised = "AttributeError"
                     /\ pkg.module.exists /\ expected \notin pkg.module.classes
                \/ r.raised = "FileNotFoundError"
                     /\ expected \in pkg.module.classes /\ ~pkg.manifest.exists
                \/ r.raised = "JSONDecodeError"
                     /\ expected \in pkg.module.classes
                     /\ pkg.manifest.exists /\ ~pkg.manifest.parses

Done(slot) == inflight[slot].state = "done"

SameInputs(a, b) ==
    /\ inflight[a].id = inflight[b].id
    /\ inflight[a].tool_name = inflight[b].tool_name
    /\ inflight[a].parameters = inflight[b].parameters
    /\ inflight[a].auth_data = inflight[b].auth_data

\* C22 as stated: the result of an execute call is determined by its tool
\* name, parameters and auth_data alone, so two calls on one unit instance
\* with the same three inputs return the same result.
C22_DeterminedByInputsAlone ==
    \A a, b \in Slots :
        (Done(a) /\ Done(b) /\ SameInputs(a, b)) =>
            inflight[a].outcome = inflight[b].outcome

\* C22, with the clock: under any interleaving of execute calls on one unit
\* instance, the result of each call is determined by its own tool name,
\* parameters and auth_data and the time at which it runs, whatever the other
\* call does; no execute call modifies the unit instance, its manifest or
\* the registry, and no call touches the other call.
C22_Independent ==
    [][\A slot \in Slots :
          (inflight'[slot] # inflight[slot]) =>
             /\ connectors' = connectors
             /\ \A other \in Slots \ {slot} : inflight'[other] = inflight[other]
             /\ inflight'[slot].state = "done" =>
                   /\ inflight'[slot].id = inflight[slot].id
                   /\ inflight'[slot].outcome =
                         execute_at(Lookup(connectors, inflight[slot].connector_name),
                                    inflight[slot].tool_name,
                                    inflight[slot].parameters,
                                    inflight[slot].auth_data, now)
                   /\ \A other \in Slots \ {slot} :
                         (Done(other) /\ SameInputs(slot, other)
                             /\ inflight[other].at = now) =>
                           inflight'[slot].outcome = inflight[other].outcome]_vars

\* two calls of send_message on the slack instance overlapped; both returned
\* at the same time with the same result
C22_Witness ==
    /\ Done("a") /\ Done("b")
    /\ SameInputs("a", "b")
    /\ inflight["a"].connector_name = slack
    /\ inflight["a"].tool_name = send_message
    /\ inflight["a"].auth_data # None
    /\ inflight["a"].at = 1 /\ inflight["b"].at = 1
    /\ inflight["a"].outcome.value.ts = 1
    /\ inflight["a"].outcome = inflight["b"].outcome

CoreStep ==
    /\ pc = "serving"
    /\ response'.op \in {"get_tools_manifest", "call_tool", "reload_connector"}

\* C23: the routing core only reads the credential store: no catalog
\* request, tool call or unit reload, successful or failed, adds, changes or
\* removes a stored credential.
C23_CoreOnlyReadsCredentials ==
    [][CoreStep => connector_credentials' = connector_credentials]_vars

\* a call by a known user reached a unit with that user's stored credentials,
\* which are still stored
C23_Witness ==
    /\ Answered
    /\ Len(response.calls) = 1
    /\ response.calls[1].auth_data = [access_token |-> "tok"]
    /\ Stored(connector_credentials,
              <<response.request.user_id, response.calls[1].connector_name>>)
          = [access_token |-> "tok"]

\* the name of the unit a tool name resolves to, <<>> when it resolves to none
WinnerName(cs, tool_name) ==
    LET found == get_connector_for_tool(cs, tool_name).value
    IN  IF found = None THEN <<>> ELSE found.connector_name

\* C24: a successful reload of an already registered unit keeps the
\* registration order of all units, so list_connectors keeps its order and,
\* when the reloaded manifest is the one the unit had, get_all_tools keeps its
\* order and every bare name resolves to the same unit as before.
C24_ReloadKeepsOrder ==
    [][(/\ ReloadStep
        /\ response'.status = 200
        /\ response'.connector_name \in Names(connectors)) =>
          /\ list_connectors(connectors') = list_connectors(connectors)
          /\ (Lookup(connectors', response'.connector_name).manifest
                = Lookup(connectors, response'.connector_name).manifest) =>
                /\ get_all_tools(connectors') = get_all_tools(connectors)
                /\ \A X \in {send_message, list_events} :
                      WinnerName(connectors', X) = WinnerName(connectors, X)]_vars

\* the names get_all_tools lists
ListedNames == {get_all_tools(connectors).value[k].name :
                   k \in 1..Len(get_all_tools(connectors).value)}

\* resolving a name gives a registered unit that declares the resolved tool
Callable(name) ==
    LET found == get_connector_for_tool(connectors, name).value
    IN  /\ found # None
        /\ found \in Range(connectors)
        /\ Declares(found, actual_tool_name_of(name))

\* C25 as stated: every name listed by get_all_tools is callable, and every
\* namespaced entry "U.t" of unit U resolves to U, for all tool names a
\* manifest may declare, names with '.' included.
C25_ListedIsCallableAnyName ==
    /\ \A name \in ListedNames : Callable(name)
    /\ \A i \in 1..Len(connectors) :
          \A k \in 1..Len(get_tools(connectors[i])) :
             get_connector_for_tool(connectors,
                 NamespacedName(connectors[i].connector_name,
                                get_tools(connectors[i])[k].name))
               = Return(connectors[i])

\* C25, for what the code does: every namespaced entry "U.t" of unit U
\* resolves to U and is callable, whether or not t contains '.'; every bare
\* entry whose name contains no '.' is callable.
C25_ListedIsCallable ==
    /\ get_all_tools(connectors).raised = ""
    /\ \A i \in 1..Len(connectors) :
          \A k \in 1..Len(get_tools(connectors[i])) :
             LET t == get_tools(connectors[i])[k].name
                 U == connectors[i].connector_name
             IN  /\ NamespacedName(U, t) \in ListedNames
                 /\ t \in ListedNames
                 /\ get_connector_for_tool(connectors, NamespacedName(U, t))
                       = Return(connectors[i])
                 /\ Callable(NamespacedName(U, t))
                 /\ ~Contains(t, DOT) => Callable(t)

\* google_calendar lists the tool "s.m"; its namespaced entry "g_c.s.m"
\* resolves to google_calendar
C25_Witness ==
    /\ response.op = "get_tools_manifest"
    /\ google_calendar \in Names(connectors)
    /\ Declares(Lookup(connectors, google_calendar), dotted_tool)
    /\ NamespacedName(google_calendar, dotted_tool) \in ListedNames
    /\ Callable(NamespacedName(google_calendar, dotted_tool))

\* the session's expiry time, creation + 24 hours, is earlier than now
Expired(session) == session.created_at + SessionHours < now

\* C26: with advancing time, get_session never returns a session whose
\* expiry time (creation + 24 hours) is earlier than the current time and
\* removes such a session when it is asked for; cleanup_expired_sessions
\* removes exactly the sessions whose expiry is earlier than the current time
\* and returns their number; neither removes or hides a session that has not
\* expired and was not invalidated.
C26_SessionExpiry ==
    [][/\ (response'.op = "get_session" /\ now' = now) =>
            LET sid == response'.session_id
            IN  IF sid \notin DOMAIN sessions
                THEN response'.session = None /\ sessions' = sessions
                ELSE IF Expired(sessions[sid])
                THEN /\ response'.session = None
                     /\ DOMAIN sessions' = DOMAIN sessions \ {sid}
                     /\ \A k \in DOMAIN sessions' : sessions'[k] = sessions[k]
                ELSE /\ response'.session = sessions[sid]
                     /\ sessions' = sessions
       /\ (response'.op = "cleanup_expired_sessions" /\ now' = now) =>
            /\ DOMAIN sessions' =
                  {k \in DOMAIN sessions : ~Expired(sessions[k])}
            /\ \A k \in DOMAIN sessions' : sessions'[k] = sessions[k]
            /\ response'.count =
                  Cardinality({k \in DOMAIN sessions : Expired(sessions[k])})
       /\ now' >= now]_vars

====
